---- MODULE Spec2Model ----
(***************************************************************************)
(* A model of mbox_to_txt_threads.py: RFC 3676 un-flowing, noise           *)
(* stripping, thread grouping and the two mailbox drivers.                 *)
(*                                                                         *)
(* A str is the sequence of its Unicode code points (<<82, 101, 58>> is    *)
(* the Python string "Re:"), a bytes object the sequence of its byte       *)
(* values.  A message is a record with a `headers` function whose domain   *)
(* holds exactly the headers that are present, and a `parts` sequence in   *)
(* message.walk() order.                                                   *)
(***************************************************************************)
EXTENDS Naturals, Sequences, FiniteSets

VARIABLES
    call,       \* the function under test and its arguments (pure-function runs)
    ret,        \* the sequence of values returned so far (pure-function runs)
    mb,         \* the mailbox: a sequence of messages
    author,     \* the author argument
    threads,    \* mailbox_text_thread's dict, in insertion order: <<[id, msgs]>>
    pc,         \* position of the driver
    pos,        \* number of mailbox messages consumed by the running loop
    cur,        \* number of threads yielded so far
    stdout,     \* what main has printed
    stderr,     \* what main has written to sys.stderr
    text_utf,   \* main's local text_utf: <<>> while unbound, <<bytes>> once bound
    exc         \* the uncaught exception that ended main, "" while none

vars == <<call, ret, mb, author, threads, pc, pos, cur, stdout, stderr, text_utf, exc>>

driverVars == <<mb, author, threads, pos, cur, stdout, stderr, text_utf, exc>>

(***************************************************************************)
(* Bounds of the model.                                                    *)
(***************************************************************************)
MaxFrags == 3
MaxMsgs == 3
MaxFilterMsgs == 2
MaxMungeFrags == 3
MaxFlowLen == 5
MaxPayloadLen == 3

(***************************************************************************)
(* The characters the code names ("\n", " ", "<", ">"), and "\r".           *)
(***************************************************************************)
LF == 10
CR == 13
SP == 32
LT == 60
GT == 62

(***************************************************************************)
(* Python str primitives.                                                  *)
(***************************************************************************)
RECURSIVE Repeat(_, _)
Repeat(s, n) == IF n = 0 THEN <<>> ELSE s \o Repeat(s, n - 1)

\* str.startswith at a 1-based offset
StartsWithAt(text, i, lit) ==
    /\ i + Len(lit) - 1 <= Len(text)
    /\ SubSeq(text, i, i + Len(lit) - 1) = lit

StartsWith(text, lit) == StartsWithAt(text, 1, lit)

EndsWith(text, lit) ==
    /\ Len(lit) <= Len(text)
    /\ SubSeq(text, Len(text) - Len(lit) + 1, Len(text)) = lit

\* text[i-1:] in Python terms: the suffix that starts at 1-based index i
SliceFrom(text, i) == SubSeq(text, i, Len(text))

\* `sub in text`
Contains(text, sub) == \E i \in 1..(Len(text) + 1) : StartsWithAt(text, i, sub)

\* the characters str.strip() and the regex class \s (of a str pattern) treat as
\* whitespace, which are those of str.isspace(): \t \n \v \f \r, U+001C-U+001F,
\* space, U+0085, U+00A0, U+1680, U+2000-U+200A, U+2028, U+2029, U+202F, U+205F
\* and U+3000
Whitespace ==
    (9..13) \cup (28..31) \cup {SP, 133, 160, 5760} \cup (8192..8202)
      \cup {8232, 8233, 8239, 8287, 12288}

RECURSIVE LStrip(_)
LStrip(s) == IF s # <<>> /\ Head(s) \in Whitespace THEN LStrip(Tail(s)) ELSE s

RECURSIVE RStrip(_)
RStrip(s) ==
    IF s # <<>> /\ s[Len(s)] \in Whitespace THEN RStrip(SubSeq(s, 1, Len(s) - 1)) ELSE s

Strip(s) == RStrip(LStrip(s))

\* case folding of an ASCII character: what re.IGNORECASE compares the letters of
\* "Re:" and "Fwd:" by (no character outside A-Z folds to one of them), and what
\* str.lower() does to an ASCII str
Lower(c) == IF c \in 65..90 THEN c + 32 ELSE c

LowerStr(s) == [k \in 1..Len(s) |-> Lower(s[k])]

Min(S) == CHOOSE x \in S : \A y \in S : x <= y

Max(S) == CHOOSE x \in S : \A y \in S : y <= x

\* Python's a <= b on str: by code point at the first index where they differ, a
\* prefix being the smaller
StrLE(a, b) ==
    LET shorter == IF Len(a) < Len(b) THEN Len(a) ELSE Len(b)
        differ == {k \in 1..shorter : a[k] # b[k]}
    IN  IF differ = {} THEN Len(a) <= Len(b) ELSE a[Min(differ)] < b[Min(differ)]

\* message.get(name, default)
Get(message, name, default) ==
    IF name \in DOMAIN message.headers THEN message.headers[name] ELSE default

\* truthiness of message[name]: None and "" are both falsy
Truthy(message, name) ==
    name \in DOMAIN message.headers /\ message.headers[name] # <<>>

(***************************************************************************)
(* clean_subject and get_thread_identifier.                                *)
(***************************************************************************)
ThreadPrefixes == {<<114, 101, 58>>, <<102, 119, 100, 58>>}  \* "re:", "fwd:"

\* re.sub(r"^(Re:|Fwd:)\s*", "", subject, flags=re.IGNORECASE): the pattern is
\* anchored, so it matches at most once, at offset 0 of the subject as given
SubPrefix(subject) ==
    IF \E p \in ThreadPrefixes : StartsWith(LowerStr(subject), p)
    THEN LET p == CHOOSE q \in ThreadPrefixes : StartsWith(LowerStr(subject), q)
         IN  LStrip(SliceFrom(subject, Len(p) + 1))
    ELSE subject

clean_subject(subject) == Strip(SubPrefix(subject))

get_thread_identifier(message) ==
    IF Truthy(message, "In-Reply-To")
    THEN Strip(message.headers["In-Reply-To"])
    ELSE clean_subject(Get(message, "Subject", <<>>))

(***************************************************************************)
(* munge_message: re.sub of each of DELETION_PATTERS in turn.              *)
(***************************************************************************)
OnLit == <<79, 110>>  \* "On"
WroteLit == <<119, 114, 111, 116, 101, 58>>  \* "wrote:"
FromLit == <<70, 114, 111, 109, 58>>  \* "From:"
ForwardedLit ==
    <<45, 45, 45, 45, 45, 45, 45, 45, 45, 45, 32, 70, 111, 114, 119, 97, 114, 100, 101, 100, 32, 109, 101, 115, 115, 97, 103, 101, 32, 45, 45, 45, 45, 45, 45, 45, 45, 45, 45>>  \* "---------- Forwarded message ----------"
PgpBeginLit ==
    <<45, 45, 45, 45, 45, 66, 69, 71, 73, 78, 32, 80, 71, 80, 32, 77, 69, 83, 83, 65, 71, 69, 45, 45, 45, 45, 45>>  \* "-----BEGIN PGP MESSAGE-----"
PgpEndLit ==
    <<45, 45, 45, 45, 45, 69, 78, 68, 32, 80, 71, 80, 32, 77, 69, 83, 83, 65, 71, 69, 45, 45, 45, 45, 45>>  \* "-----END PGP MESSAGE-----"

\* the number of patterns in DELETION_PATTERS
PatternCount == Len(<<"reply", "from", "forwarded", "pgp", "link">>)

\* `(\n|^)lit` tried at index i: the index after lit, 0 when it does not match.
\* Without re.MULTILINE ^ matches at the start of the text only, so a line start
\* further on is matched through the \n before it.
LineStart(text, i, lit) ==
    IF text[i] = LF /\ StartsWithAt(text, i + 1, lit) THEN i + 1 + Len(lit)
    ELSE IF i = 1 /\ StartsWithAt(text, 1, lit) THEN 1 + Len(lit)
    ELSE 0

NewlineCount(text, from, to) == Cardinality({j \in from..to : text[j] = LF})

\* the reply pattern with its `\n?` left out: "wrote:" only on the "On" line itself
ReplyMatchEndOneLine(text, i) ==
    LET q == LineStart(text, i, OnLit)
    IN  IF q > 0 /\ \E w \in q..Len(text) :
                        /\ StartsWithAt(text, w, WroteLit \o <<LF>>)
                        /\ NewlineCount(text, q, w - 1) = 0
        THEN Len(text) ELSE 0

\* `(\n|^)On.*\n?.*wrote:\n+(.|\n)*$` tried at i: `.*\n?.*` spans at most one \n,
\* "wrote:" must be followed by a \n, and the greedy tail runs to the end
ReplyMatchEnd(text, i) ==
    LET q == LineStart(text, i, OnLit)
    IN  IF q > 0 /\ \E w \in q..Len(text) :
                        /\ StartsWithAt(text, w, WroteLit \o <<LF>>)
                        /\ NewlineCount(text, q, w - 1) <= 1
        THEN Len(text) ELSE 0

\* `(\n|^)lit(.|\n)*$` tried at i
TruncateMatchEnd(text, i, lit) ==
    IF LineStart(text, i, lit) > 0 THEN Len(text) ELSE 0

\* `(\n|^)-----BEGIN PGP MESSAGE-----\n(.|\n)*-----END PGP MESSAGE-----\n` tried at
\* i: the greedy middle runs to the last END line
PgpMatchEnd(text, i) ==
    LET q == LineStart(text, i, PgpBeginLit \o <<LF>>)
        ends == {w \in q..Len(text) : StartsWithAt(text, w, PgpEndLit \o <<LF>>)}
    IN  IF q > 0 /\ ends # {} THEN Max(ends) + Len(PgpEndLit) ELSE 0

\* `<[^ ]+>` tried at i: the greedy class runs to the last ">" before any space
LinkMatchEnd(text, i) ==
    LET closes == {j \in (i + 2)..Len(text) :
                      text[j] = GT /\ \A m \in (i + 1)..j : text[m] # SP}
    IN  IF text[i] = LT /\ closes # {} THEN Max(closes) ELSE 0

\* the last index of pattern k's match that starts at index i, 0 when there is none
MatchEnd(k, text, i) ==
    CASE k = 1 -> ReplyMatchEnd(text, i)
      [] k = 2 -> TruncateMatchEnd(text, i, FromLit)
      [] k = 3 -> TruncateMatchEnd(text, i, ForwardedLit)
      [] k = 4 -> PgpMatchEnd(text, i)
      [] OTHER -> LinkMatchEnd(text, i)

\* re.sub(pattern, "", text) from index i on: the leftmost match is deleted and the
\* scan goes on behind it, so matches do not overlap
RECURSIVE ReSubFrom(_, _, _)
ReSubFrom(k, text, i) ==
    LET starts == {j \in i..Len(text) : MatchEnd(k, text, j) > 0}
    IN  IF starts = {} THEN SliceFrom(text, i)
        ELSE SubSeq(text, i, Min(starts) - 1)
               \o ReSubFrom(k, text, MatchEnd(k, text, Min(starts)) + 1)

re_sub(k, text) == ReSubFrom(k, text, 1)

RECURSIVE MungeFrom(_, _)
MungeFrom(k, text) ==
    IF k > PatternCount THEN text ELSE MungeFrom(k + 1, re_sub(k, text))

munge_message(text) == MungeFrom(1, text)

(***************************************************************************)
(* RFC 3676 un-flowing: unquoted_line, unstuff_line, unflow_line,          *)
(* unflow_text.                                                            *)
(***************************************************************************)
\* Python values that are a bool, a str or None (what get_param returns)
PyBool(b) == [t |-> "bool", b |-> b]
PyStr(s) == [t |-> "str", s |-> s]
PyNone == [t |-> "none"]

\* truthiness of a bool, str or None
IsTrue(v) == CASE v.t = "bool" -> v.b [] v.t = "str" -> v.s # <<>> [] OTHER -> FALSE

\* the line boundaries of str.splitlines(): \n \v \f \r, U+001C-U+001E, U+0085,
\* U+2028 and U+2029
LineBoundaries == (10..13) \cup (28..30) \cup {133, 8232, 8233}

\* str.splitlines() from index i on: the line up to the next boundary, then the
\* lines behind it; \r\n is one boundary, and a final boundary opens no empty last
\* line
RECURSIVE SplitFrom(_, _)
SplitFrom(text, i) ==
    IF i > Len(text) THEN <<>>
    ELSE IF \A j \in i..Len(text) : text[j] \notin LineBoundaries
         THEN <<SliceFrom(text, i)>>
    ELSE LET j == CHOOSE b \in i..Len(text) :
                      /\ text[b] \in LineBoundaries
                      /\ \A m \in i..(b - 1) : text[m] \notin LineBoundaries
         IN  <<SubSeq(text, i, j - 1)>>
               \o SplitFrom(text, IF text[j] = CR /\ j < Len(text) /\ text[j + 1] = LF
                                  THEN j + 2 ELSE j + 1)

splitlines(text) == SplitFrom(text, 1)

RECURSIVE unquoted_line(_)
unquoted_line(line) ==
    IF StartsWith(line, <<GT>>)
    THEN LET r == unquoted_line(Tail(line))
         IN  [line |-> r.line, quote_depth |-> r.quote_depth + 1]
    ELSE [line |-> line, quote_depth |-> 0]

unstuff_line(line) == IF StartsWith(line, <<SP>>) THEN Tail(line) ELSE line

unflow_line(line, delsp) ==
    IF Len(line) < 1 THEN [line |-> line, soft_break |-> FALSE]
    ELSE IF EndsWith(line, <<SP>>)
         THEN [line |-> IF IsTrue(delsp) THEN SubSeq(line, 1, Len(line) - 1) ELSE line,
               soft_break |-> TRUE]
    ELSE [line |-> line, soft_break |-> FALSE]

\* the loop without its `full_line = ""`: a finished line is carried into the next
RECURSIVE UnflowLoopNoReset(_, _, _, _)
UnflowLoopNoReset(lines, delsp, full_line, full_text) ==
    IF lines = <<>> THEN full_text
    ELSE LET q == unquoted_line(Head(lines))
             f == unflow_line(unstuff_line(q.line), delsp)
             joined == full_line \o f.line
         IN  IF ~f.soft_break
             THEN UnflowLoopNoReset(Tail(lines), delsp, joined,
                                    full_text \o Repeat(<<GT>>, q.quote_depth) \o joined \o <<LF>>)
             ELSE UnflowLoopNoReset(Tail(lines), delsp, joined, full_text)

\* the body of unflow_text's for loop, over the lines still to read
RECURSIVE UnflowLoop(_, _, _, _)
UnflowLoop(lines, delsp, full_line, full_text) ==
    IF lines = <<>> THEN full_text
    ELSE LET q == unquoted_line(Head(lines))
             f == unflow_line(unstuff_line(q.line), delsp)
             joined == full_line \o f.line
         IN  IF ~f.soft_break
             THEN UnflowLoop(Tail(lines), delsp, <<>>,
                             full_text \o Repeat(<<GT>>, q.quote_depth) \o joined \o <<LF>>)
             ELSE UnflowLoop(Tail(lines), delsp, joined, full_text)

unflow_text(text, delsp) == UnflowLoop(splitlines(text), delsp, <<>>, <<>>)

(***************************************************************************)
(* part_to_text and message_to_text.  A part is [content_type, params,     *)
(* payload]: params holds the Content-Type parameters that are present,    *)
(* payload the transfer-decoded bytes.  A function that can raise returns  *)
(* [raised, ...] with raised the exception's name, "" when it returned.    *)
(***************************************************************************)
\* part.get_param(name, failobj)
get_param(part, name, failobj) ==
    IF name \in DOMAIN part.params THEN PyStr(part.params[name]) ELSE failobj

\* part.get_content_charset(): None when there is no charset parameter or its value
\* is not ASCII, else the value in lower case
get_content_charset(part) ==
    IF "charset" \notin DOMAIN part.params THEN PyNone
    ELSE LET charset == part.params["charset"]
         IN  IF \E k \in 1..Len(charset) : charset[k] > 127 THEN PyNone
             ELSE PyStr(LowerStr(charset))

Utf8Names == {<<117, 116, 102, 45, 56>>, <<117, 116, 102, 56>>}  \* "utf-8", "utf8"
AsciiNames == {<<117, 115, 45, 97, 115, 99, 105, 105>>, <<97, 115, 99, 105, 105>>}  \* "us-ascii", "ascii"
Latin1Names ==
    {<<108, 97, 116, 105, 110, 45, 49>>, <<105, 115, 111, 45, 56, 56, 53, 57, 45, 49>>}  \* "latin-1", "iso-8859-1"
UnknownNames == {<<120, 45, 117, 110, 107, 110, 111, 119, 110>>}  \* "x-unknown"

\* the codec bytes.decode looks up for a charset name.  Three codecs are modelled,
\* under the names listed; "" is the outcome for a name that no codec is
\* registered under.  Python's other codecs are outside the model.
CodecOf(charset) ==
    CASE charset \in Utf8Names -> "utf-8"
      [] charset \in AsciiNames -> "ascii"
      [] charset \in Latin1Names -> "latin-1"
      [] charset \in UnknownNames -> ""

\* the length of the well-formed UTF-8 sequence that starts at index i of p
\* (shortest form, no surrogate, at most U+10FFFF), 0 when p[i] opens none
Utf8SeqLen(p, i) ==
    LET cont(k) == Len(p) >= k /\ p[k] \in 128..191
        second(lo, hi) == Len(p) >= i + 1 /\ p[i + 1] \in lo..hi
    IN  IF p[i] < 128 THEN 1
        ELSE IF p[i] \in 194..223 /\ cont(i + 1) THEN 2
        ELSE IF p[i] = 224 /\ second(160, 191) /\ cont(i + 2) THEN 3
        ELSE IF p[i] \in (225..236) \cup {238, 239} /\ cont(i + 1) /\ cont(i + 2) THEN 3
        ELSE IF p[i] = 237 /\ second(128, 159) /\ cont(i + 2) THEN 3
        ELSE IF p[i] = 240 /\ second(144, 191) /\ cont(i + 2) /\ cont(i + 3) THEN 4
        ELSE IF p[i] \in 241..243 /\ cont(i + 1) /\ cont(i + 2) /\ cont(i + 3) THEN 4
        ELSE IF p[i] = 244 /\ second(128, 143) /\ cont(i + 2) /\ cont(i + 3) THEN 4
        ELSE 0

\* the code point the n-byte sequence at index i of p encodes
Utf8Scalar(p, i, n) ==
    CASE n = 1 -> p[i]
      [] n = 2 -> (p[i] - 192) * 64 + (p[i + 1] - 128)
      [] n = 3 -> (p[i] - 224) * 4096 + (p[i + 1] - 128) * 64 + (p[i + 2] - 128)
      [] n = 4 -> (p[i] - 240) * 262144 + (p[i + 1] - 128) * 4096
                    + (p[i + 2] - 128) * 64 + (p[i + 3] - 128)

\* errors="ignore" for utf-8: every well-formed sequence gives its character and
\* every other byte is dropped.  The bytes after the first of a well-formed
\* sequence are continuation bytes, which open no sequence themselves, so each
\* index is decoded on its own; 0x110000 stands for "dropped".
Utf8Decode(p) ==
    LET dropped == 1114112
        at == [i \in 1..Len(p) |->
                  IF Utf8SeqLen(p, i) > 0 THEN Utf8Scalar(p, i, Utf8SeqLen(p, i))
                  ELSE dropped]
    IN  SelectSeq(at, LAMBDA c : c # dropped)

\* errors="ignore" for ascii: a byte above 0x7F is dropped
AsciiDecode(p) == SelectSeq(p, LAMBDA b : b < 128)

\* latin-1: every byte is the code point of its character
Latin1Decode(p) == p

\* payload.decode(encoding=charset, errors="ignore"): empty bytes decode to "" before
\* any codec is looked up
Decode(payload, charset) ==
    IF payload = <<>> THEN [raised |-> "", text |-> <<>>]
    ELSE LET codec == CodecOf(charset)
         IN  CASE codec = "utf-8" -> [raised |-> "", text |-> Utf8Decode(payload)]
               [] codec = "ascii" -> [raised |-> "", text |-> AsciiDecode(payload)]
               [] codec = "latin-1" -> [raised |-> "", text |-> Latin1Decode(payload)]
               [] codec = "" -> [raised |-> "LookupError", text |-> <<>>]

Surrogates == 55296..57343

\* the UTF-8 bytes of one code point
Utf8Bytes(c) ==
    IF c < 128 THEN <<c>>
    ELSE IF c < 2048 THEN <<192 + (c \div 64), 128 + (c % 64)>>
    ELSE IF c < 65536
         THEN <<224 + (c \div 4096), 128 + ((c \div 64) % 64), 128 + (c % 64)>>
    ELSE <<240 + (c \div 262144), 128 + ((c \div 4096) % 64),
           128 + ((c \div 64) % 64), 128 + (c % 64)>>

\* the bytes of every character in turn, the text taken half by half
RECURSIVE Utf8Concat(_)
Utf8Concat(text) ==
    IF text = <<>> THEN <<>>
    ELSE IF Len(text) = 1 THEN Utf8Bytes(text[1])
    ELSE Utf8Concat(SubSeq(text, 1, Len(text) \div 2))
           \o Utf8Concat(SliceFrom(text, Len(text) \div 2 + 1))

\* str.encode("utf-8"): a surrogate cannot be encoded
Utf8Encode(text) ==
    IF \E k \in 1..Len(text) : text[k] \in Surrogates
    THEN [raised |-> "UnicodeEncodeError", bytes |-> <<>>]
    ELSE [raised |-> "", bytes |-> Utf8Concat(text)]

FlowedLit == <<102, 108, 111, 119, 101, 100>>  \* "flowed"

\* None is value <<>>, a text t is value <<t>>
part_to_text(part) ==
    IF part.content_type # "text/plain" THEN [raised |-> "", value |-> <<>>]
    ELSE LET charset == get_content_charset(part)
         IN  IF ~IsTrue(charset) THEN [raised |-> "", value |-> <<>>]
             ELSE LET decoded == Decode(part.payload, charset.s)
                  IN  IF decoded.raised # "" THEN [raised |-> decoded.raised, value |-> <<>>]
                      ELSE IF get_param(part, "format", PyNone) = PyStr(FlowedLit)
                           THEN [raised |-> "",
                                 value |-> <<unflow_text(decoded.text,
                                                         get_param(part, "delsp", PyBool(FALSE)))>>]
                      ELSE [raised |-> "", value |-> <<decoded.text>>]

\* the loop of message_to_text over the parts still to walk, text being what the
\* parts before them gave
RECURSIVE WalkText(_, _)
WalkText(parts, text) ==
    IF parts = <<>> THEN [raised |-> "", text |-> text]
    ELSE LET part == part_to_text(Head(parts))
         IN  IF part.raised # "" THEN [raised |-> part.raised, text |-> <<>>]
             ELSE WalkText(Tail(parts),
                           IF part.value # <<>> /\ part.value[1] # <<>>
                           THEN text \o part.value[1] ELSE text)

message_to_text(message) == WalkText(message.parts, <<>>)

(***************************************************************************)
(* mailbox_text: the single-message filter.                                *)
(***************************************************************************)
\* the mutated filter: a To header that is present but empty is let through
relevant_to_present(message, a) ==
    /\ Truthy(message, "From")
    /\ Contains(message.headers["From"], a)
    /\ "To" \in DOMAIN message.headers
    /\ ~Contains(message.headers["To"], a)

\* the message passes the four `continue` tests of mailbox_text
relevant(message, a) ==
    /\ Truthy(message, "From")
    /\ Contains(message.headers["From"], a)
    /\ Truthy(message, "To")
    /\ ~Contains(message.headers["To"], a)

(***************************************************************************)
(* mailbox_text_thread: grouping and sorting.  A thread's msgs are indices *)
(* into the mailbox (the message objects the lists refer to).              *)
(***************************************************************************)
\* the sort key: msg.get("Date", "")
DateKey(message) == Get(message, "Date", <<>>)

\* the index of the thread keyed thread_id, 0 when `thread_id not in threads`
ThreadIndex(ths, thread_id) ==
    IF \E k \in 1..Len(ths) : ths[k].id = thread_id
    THEN CHOOSE k \in 1..Len(ths) : ths[k].id = thread_id
    ELSE 0

\* one pass of the loop body: setdefault and append
AddToThread(ths, thread_id, m) ==
    LET k == ThreadIndex(ths, thread_id)
    IN  IF k = 0 THEN Append(ths, [id |-> thread_id, msgs |-> <<m>>])
        ELSE [ths EXCEPT ![k].msgs = Append(@, m)]

\* list.sort is stable: m goes before the first element with a greater key
RECURSIVE InsertByDate(_, _, _)
InsertByDate(box, sorted, m) ==
    IF sorted = <<>> THEN <<m>>
    ELSE IF StrLE(DateKey(box[Head(sorted)]), DateKey(box[m]))
         THEN <<Head(sorted)>> \o InsertByDate(box, Tail(sorted), m)
    ELSE <<m>> \o sorted

RECURSIVE SortFrom(_, _, _)
SortFrom(box, msgs, sorted) ==
    IF msgs = <<>> THEN sorted
    ELSE SortFrom(box, Tail(msgs), InsertByDate(box, sorted, Head(msgs)))

\* the sort left out: the thread stays in mailbox order
UnsortedByDate(box, msgs) == msgs

\* thread.sort(key=lambda msg: msg.get("Date", ""))
SortByDate(box, msgs) == SortFrom(box, msgs, <<>>)

(***************************************************************************)
(* main.                                                                   *)
(***************************************************************************)
\* the number of bytes of text_utf the diagnostic takes
DiagLen == 20

Take(s, n) == SubSeq(s, 1, IF Len(s) < n THEN Len(s) ELSE n)

\* the argument of sys.stderr.write, `text_utf[:20] + "\n"`, with text_utf as main
\* holds it (<<>> while unbound): reading the unbound local raises
\* UnboundLocalError, and bytes + str raises TypeError
DiagnosticLine(local) ==
    IF local = <<>> THEN [raised |-> "UnboundLocalError", line |-> <<>>]
    ELSE [raised |-> "TypeError", line |-> Take(local[1], DiagLen)]

(***************************************************************************)
(* Inputs: texts are concatenations of at most MaxFrags fragments.         *)
(***************************************************************************)
RECURSIVE FragSeqs(_, _)
FragSeqs(frags, n) ==
    IF n = 0 THEN {<<>>}
    ELSE LET shorter == FragSeqs(frags, n - 1)
         IN  shorter \cup {s \o f : s \in shorter, f \in frags}

SubjectFrags ==
    { <<82, 101, 58>>, <<70, 119, 100, 58>>, <<102, 87, 68, 58>>,  \* "Re:", "Fwd:", "fWD:"
      <<SP>>, <<12>>, <<72, 105>> }  \* " ", "\f", "Hi"

\* the two subjects the specification's examples name, and a prefix followed by a
\* no-break space and a line separator
SubjectExamples ==
    { <<82, 101, 58, 32, 82, 101, 58, 32, 72, 101, 108, 108, 111>>,  \* "Re: Re: Hello"
      <<32, 32, 70, 119, 100, 58, 32, 32, 84, 114, 105, 112>>,  \* "  Fwd:  Trip"
      <<82, 69, 58, 160, 8232, 72, 105, 133>> }  \* "RE:\xa0\u2028Hi\x85"

Subjects == FragSeqs(SubjectFrags, MaxFrags) \cup SubjectExamples

InReplyTos ==
    { <<>>, <<32, 9>>, <<60, 49, 62>>, <<32, 60, 49, 62, 32>>,  \* "", " \t", "<1>", " <1> "
      <<12>>, <<160, 60, 49, 62, 8232>> }  \* "\f", "\xa0<1>\u2028"

SubjectHeaders ==
    {[h \in {} |-> <<>>]} \cup {[Subject |-> s] : s \in {<<>>, <<72, 105>>, <<82, 101, 58, 32, 72, 105>>}}  \* "Hi", "Re: Hi"

\* the headers of the messages get_thread_identifier is applied to
IdHeaders ==
    SubjectHeaders
      \cup {[h \in {"In-Reply-To"} |-> r] : r \in InReplyTos}
      \cup {[h \in {"In-Reply-To", "Subject"} |-> IF h = "Subject" THEN sh.Subject ELSE r] :
              sh \in (SubjectHeaders \ {[h \in {} |-> <<>>]}), r \in InReplyTos}

IdleDriver ==
    /\ mb = <<>>
    /\ author = <<>>
    /\ threads = <<>>
    /\ pc = "pure"
    /\ pos = 0
    /\ cur = 0
    /\ stdout = <<>>
    /\ stderr = <<>>
    /\ text_utf = <<>>
    /\ exc = ""

InitSubject ==
    /\ call \in {[fn |-> "clean_subject", subject |-> s] : s \in Subjects}
                  \cup {[fn |-> "get_thread_identifier", message |-> [headers |-> h]] :
                          h \in IdHeaders}
    /\ ret = <<>>
    /\ IdleDriver

CleanSubject ==
    /\ call.fn = "clean_subject"
    /\ ret = <<>>
    /\ ret' = <<clean_subject(call.subject)>>
    /\ UNCHANGED <<call, pc>>
    /\ UNCHANGED driverVars

GetThreadIdentifier ==
    /\ call.fn = "get_thread_identifier"
    /\ ret = <<>>
    /\ ret' = <<get_thread_identifier(call.message)>>
    /\ UNCHANGED <<call, pc>>
    /\ UNCHANGED driverVars

NextSubject == CleanSubject \/ GetThreadIdentifier

SpecSubject == InitSubject /\ [][NextSubject]_vars

(***************************************************************************)
(* Un-flowing runs: unflow_text on every text of at most MaxFlowLen        *)
(* characters over FlowChars (applied a second time to its own result),    *)
(* and part_to_text on text parts.                                         *)
(***************************************************************************)
\* ">", " ", "a", "\n" and "\f"
FlowChars == {GT, SP, 97, LF, 12}

RECURSIVE TextsUpTo(_, _)
TextsUpTo(chars, n) ==
    IF n = 0 THEN {<<>>}
    ELSE LET shorter == TextsUpTo(chars, n - 1)
         IN  shorter \cup {Append(t, c) : t \in shorter, c \in chars}

\* "Hi there \nbye\n", the body of the specification's delsp scenario
FlowedBody == <<72, 105, 32, 116, 104, 101, 114, 101, 32, 10, 98, 121, 101, 10>>  \* "Hi there \nbye\n"

FlowTexts ==
    TextsUpTo(FlowChars, MaxFlowLen)
      \cup {FlowedBody, <<97, 32, 13, 10, 62, 98, 13, 99>>,  \* "a \r\n>b\rc"
            <<97, 32, 133, 62, 32, 98, 8232, 11, 28, 29, 30, 31, 99, 8233>>}  \* "a \x85> b\u2028\v\x1c\x1d\x1e\x1fc\u2029"

Utf8Name == <<117, 116, 102, 45, 56>>  \* "utf-8"
Latin1Name == <<105, 115, 111, 45, 56, 56, 53, 57, 45, 49>>  \* "iso-8859-1"
UnknownName == <<120, 45, 117, 110, 107, 110, 111, 119, 110>>  \* "x-unknown"

\* the charset values of the parts: the codecs modelled, a name in upper case, an
\* unregistered name, an empty value and a value that is not ASCII
Charsets ==
    { Utf8Name, <<85, 84, 70, 45, 56>>, <<117, 115, 45, 97, 115, 99, 105, 105>>,  \* "UTF-8", "us-ascii"
      Latin1Name, UnknownName, <<>>, <<117, 116, 102, 45, 56, 233>> }

ParamSets ==
    { [n \in {} |-> <<>>],
      [n \in {"format"} |-> FlowedLit],
      [n \in {"charset", "format"} |->
          IF n = "charset" THEN Utf8Name ELSE <<102, 105, 120, 101, 100>>] }  \* "fixed"
      \cup { [n \in {"charset"} |-> c] : c \in Charsets }
      \cup { [n \in {"charset", "format"} |-> IF n = "charset" THEN c ELSE FlowedLit] :
             c \in Charsets }
      \cup { [n \in {"charset", "format", "delsp"} |->
                CASE n = "charset" -> c [] n = "format" -> FlowedLit [] OTHER -> d] :
             c \in {Utf8Name, Latin1Name}, d \in {<<121, 101, 115>>, <<110, 111>>, <<>>} }  \* "yes", "no", ""

\* payloads: every byte string of at most MaxPayloadLen bytes over " ", "a", "\n",
\* the flowed body, and bytes that are ill-formed, or spell U+00E9 and U+2028, in
\* UTF-8
PartPayloads ==
    TextsUpTo({SP, 97, LF}, MaxPayloadLen)
      \cup {FlowedBody, <<97, 255, 32, 10, 255, 98>>,
            <<99, 97, 102, 195, 169, 32, 10, 226, 128, 168, 120, 226, 128>>}

Parts ==
    [content_type : {"text/plain", "text/html"}, params : ParamSets, payload : PartPayloads]

InitFlow ==
    /\ call \in {[fn |-> "unflow_text", text |-> t, delsp |-> PyBool(d)] :
                    t \in FlowTexts, d \in BOOLEAN}
                  \cup {[fn |-> "part_to_text", part |-> p] : p \in Parts}
    /\ ret = <<>>
    /\ IdleDriver

UnflowText ==
    /\ call.fn = "unflow_text"
    /\ ret = <<>>
    /\ ret' = <<unflow_text(call.text, call.delsp)>>
    /\ UNCHANGED <<call, pc>>
    /\ UNCHANGED driverVars

\* unflow_text applied to its own result
UnflowAgain ==
    /\ call.fn = "unflow_text"
    /\ Len(ret) = 1
    /\ ret' = Append(ret, unflow_text(ret[1], call.delsp))
    /\ UNCHANGED <<call, pc>>
    /\ UNCHANGED driverVars

\* part_to_text returns its value, or the exception it raised ends the run
PartToText ==
    /\ call.fn = "part_to_text"
    /\ ret = <<>>
    /\ exc = ""
    /\ LET r == part_to_text(call.part)
       IN  IF r.raised = ""
           THEN ret' = <<r.value>> /\ UNCHANGED <<pc, exc>>
           ELSE ret' = ret /\ pc' = "error" /\ exc' = r.raised
    /\ UNCHANGED <<call, mb, author, threads, pos, cur, stdout, stderr, text_utf>>

NextFlow == UnflowText \/ UnflowAgain \/ PartToText

SpecFlow == InitFlow /\ [][NextFlow]_vars

(***************************************************************************)
(* Noise-stripping runs: munge_message on concatenations of at most        *)
(* MaxMungeFrags fragments.                                                *)
(***************************************************************************)
MungeFrags ==
    { OnLit \o <<32, 120>>, <<LF>> \o OnLit \o <<32, 120>>, <<LF>>,  \* "On x", "\nOn x"
      <<SP>> \o WroteLit \o <<LF>>, <<SP>> \o WroteLit \o <<CR, LF>>, WroteLit,
      <<LF>> \o FromLit,
      <<60, 97, 62>>, <<60>>, <<113>>, <<SP>>,  \* "<a>"
      <<LF>> \o ForwardedLit, PgpBeginLit \o <<LF>>, PgpEndLit \o <<LF>> }

\* "hi\nOn Jan 1, 2020, X wrote:\nquoted\nnew\n", the specification's example, and
\* reply headers whose "wrote:" comes two lines, and one line, below their "On"
MungeExamples ==
    { <<104, 105, 10, 79, 110, 32, 74, 97, 110, 32, 49, 44, 32, 50, 48, 50, 48, 44, 32, 88, 32, 119, 114, 111, 116, 101, 58, 10, 113, 117, 111, 116, 101, 100, 10, 110, 101, 119, 10>>,  \* "hi\nOn Jan 1, 2020, X wrote:\nquoted\nnew\n"
      <<97, 10, 79, 110, 32, 120, 10, 121, 10, 122, 32, 119, 114, 111, 116, 101, 58, 10, 113>>,  \* "a\nOn x\ny\nz wrote:\nq"
      <<104, 105, 10, 79, 110, 32, 74, 97, 110, 32, 49, 44, 10, 88, 32, 119, 114, 111, 116, 101, 58, 10, 62, 32, 113, 10, 110, 101, 119>> }  \* "hi\nOn Jan 1,\nX wrote:\n> q\nnew"

MungeTexts == FragSeqs(MungeFrags, MaxMungeFrags) \cup MungeExamples

InitMunge ==
    /\ call \in {[fn |-> "munge_message", text |-> t] : t \in MungeTexts}
    /\ ret = <<>>
    /\ IdleDriver

MungeMessage ==
    /\ call.fn = "munge_message"
    /\ ret = <<>>
    /\ ret' = <<munge_message(call.text)>>
    /\ UNCHANGED <<call, pc>>
    /\ UNCHANGED driverVars

NextMunge == MungeMessage

SpecMunge == InitMunge /\ [][NextMunge]_vars

(***************************************************************************)
(* Mailbox runs.                                                           *)
(***************************************************************************)
Alice == <<97, 108, 105, 99, 101>>  \* "alice"
Bob == <<98, 111, 98>>  \* "bob"
Carol == <<99, 97, 114, 111, 108>>  \* "carol"

CharsetPart(charset, payload) ==
    [content_type |-> "text/plain", params |-> [charset |-> charset], payload |-> payload]

PlainPart(payload) == CharsetPart(Utf8Name, payload)

FlowedPart(payload) ==
    [content_type |-> "text/plain",
     params |-> [charset |-> Utf8Name, format |-> FlowedLit], payload |-> payload]

HtmlPart ==
    [content_type |-> "text/html", params |-> [charset |-> Utf8Name], payload |-> <<113, 10>>]  \* "q\n"

\* the messages the threaded export is run on: a three-message conversation with
\* alice whose dates are out of order or missing, two messages between bob and
\* carol, one of them a reply by In-Reply-To with an empty Date, and two messages
\* about a menu, one in latin-1 and one with a part in an unregistered charset
ThreadMessages ==
    { [headers |-> [From |-> Alice, To |-> Bob, Subject |-> <<72, 105>>,  \* "Hi"
                    Date |-> <<50, 48, 50, 48, 45, 48, 50, 45, 48, 49>>],  \* "2020-02-01"
       parts |-> <<PlainPart(<<104, 101, 108, 108, 111, 10>>)>>],  \* "hello\n"
      [headers |-> [From |-> Bob, To |-> Alice, Subject |-> <<82, 101, 58, 32, 72, 105>>,  \* "Re: Hi"
                    Date |-> <<50, 48, 50, 48, 45, 48, 49, 45, 48, 49>>],  \* "2020-01-01"
       parts |-> <<HtmlPart, FlowedPart(<<111, 107, 32, 10, 115, 117, 114, 101, 10, 79, 110, 32, 120, 32, 119, 114, 111, 116, 101, 58, 10, 62, 32, 104, 101, 108, 108, 111, 10>>)>>],  \* "ok \nsure\nOn x wrote:\n> hello\n"
      [headers |-> [From |-> Bob, To |-> Alice \o <<44, 32>> \o Carol,  \* ", "
                    Subject |-> <<70, 119, 100, 58, 72, 105>>],  \* "Fwd:Hi"
       parts |-> <<HtmlPart>>],
      [headers |-> [From |-> Bob, To |-> Carol, Subject |-> <<76, 117, 110, 99, 104>>,  \* "Lunch"
                    Date |-> <<77, 111, 110, 44, 32, 51, 32, 70, 101, 98, 32, 50, 48, 50, 48>>],  \* "Mon, 3 Feb 2020"
       parts |-> <<PlainPart(<<99, 97, 102, 195, 169, 255, 10>>)>>],
      [headers |-> [h \in {"From", "To", "Subject", "Date", "In-Reply-To"} |->
                      CASE h = "From" -> Carol [] h = "To" -> Bob
                        [] h = "Subject" -> <<82, 101, 58, 32, 76, 117, 110, 99, 104>>  \* "Re: Lunch"
                        [] h = "Date" -> <<>> [] OTHER -> <<60, 49, 62>>],  \* "<1>"
       parts |-> <<PlainPart(<<111, 107, 10>>)>>],  \* "ok\n"
      [headers |-> [From |-> Carol, To |-> Alice, Subject |-> <<77, 101, 110, 117>>,  \* "Menu"
                    Date |-> <<50, 48, 50, 48, 45, 48, 51, 45, 48, 49>>],  \* "2020-03-01"
       parts |-> <<CharsetPart(Latin1Name, <<99, 97, 102, 233, 10>>)>>],
      [headers |-> [From |-> Alice, To |-> Carol,
                    Subject |-> <<82, 101, 58, 12, 77, 101, 110, 117>>],  \* "Re:\fMenu"
       parts |-> <<PlainPart(<<111, 107, 10>>), CharsetPart(UnknownName, <<113>>)>>] }

ThreadAuthors == {Alice, <<100, 97, 118, 101>>}  \* "dave"

RECURSIVE SeqsUpTo(_, _)
SeqsUpTo(S, n) ==
    IF n = 0 THEN {<<>>}
    ELSE LET shorter == SeqsUpTo(S, n - 1)
         IN  shorter \cup {Append(q, x) : q \in shorter, x \in S}

NoCall == [fn |-> "main"]

InitThread ==
    /\ mb \in SeqsUpTo(ThreadMessages, MaxMsgs)
    /\ author \in ThreadAuthors
    /\ threads = <<>>
    /\ pc = "group"
    /\ pos = 0
    /\ cur = 0
    /\ stdout = <<>>
    /\ stderr = <<>>
    /\ text_utf = <<>>
    /\ exc = ""
    /\ call = NoCall
    /\ ret = <<>>

\* mailbox_text_thread, lines 231-240: one message of the mailbox is grouped
GroupMessage ==
    /\ pc = "group"
    /\ pos < Len(mb)
    /\ threads' = AddToThread(threads, get_thread_identifier(mb[pos + 1]), pos + 1)
    /\ pos' = pos + 1
    /\ UNCHANGED <<call, ret, mb, author, pc, cur, stdout, stderr, text_utf, exc>>

\* mailbox_text_thread, lines 243-244: every thread is sorted by date
SortThreads ==
    /\ pc = "group"
    /\ pos = Len(mb)
    /\ threads' = [k \in 1..Len(threads) |->
                      [threads[k] EXCEPT !.msgs = SortByDate(mb, @)]]
    /\ pc' = "yield"
    /\ UNCHANGED <<call, ret, mb, author, pos, cur, stdout, stderr, text_utf, exc>>

\* lines 247-249 and 260-262: the next thread is yielded and main prints its header
YieldThread ==
    /\ pc = "yield"
    /\ cur < Len(threads)
    /\ cur' = cur + 1
    /\ pos' = 0
    /\ stdout' = Append(stdout, [line |-> "Email thread", bytes |-> threads[cur + 1].id])
    /\ pc' = "message"
    /\ UNCHANGED <<call, ret, mb, author, threads, stderr, text_utf, exc>>

\* the generator is exhausted and main returns
ThreadsExhausted ==
    /\ pc = "yield"
    /\ cur = Len(threads)
    /\ pc' = "done"
    /\ UNCHANGED <<call, ret, mb, author, threads, pos, cur, stdout, stderr, text_utf, exc>>

\* main, lines 263-275: one message of the yielded thread.  The write of line 275
\* stands after the `if`, so it runs for every message.
MainMessage ==
    /\ pc = "message"
    /\ LET message == mb[threads[cur].msgs[pos + 1]]
           subject == clean_subject(Get(message, "Subject", <<>>))
           walked == message_to_text(message)
           text == munge_message(walked.text)
           printing == walked.raised = "" /\ text # <<>>
           subject_utf == Utf8Encode(subject)
           encoded == Utf8Encode(text)
           printed == printing /\ subject_utf.raised = "" /\ encoded.raised = ""
           local == IF printed THEN <<encoded.bytes>> ELSE text_utf
           raised == IF walked.raised # "" THEN walked.raised
                     ELSE IF printing /\ subject_utf.raised # "" THEN subject_utf.raised
                     ELSE IF printing /\ encoded.raised # "" THEN encoded.raised
                     ELSE DiagnosticLine(local).raised
       IN  /\ stdout' = IF printed
                        THEN stdout \o << [line |-> "Subject", bytes |-> subject_utf.bytes],
                                          [line |-> "", bytes |-> <<>>],
                                          [line |-> "body", bytes |-> encoded.bytes],
                                          [line |-> "----", bytes |-> <<>>] >>
                        ELSE stdout
           /\ text_utf' = local
           /\ IF raised = ""
              THEN /\ stderr' = Append(stderr, DiagnosticLine(local).line \o <<LF>>)
                   /\ pos' = pos + 1
                   /\ pc' = IF pos + 1 < Len(threads[cur].msgs) THEN "message" ELSE "yield"
                   /\ exc' = exc
              ELSE /\ exc' = raised
                   /\ pc' = "error"
                   /\ UNCHANGED <<stderr, pos>>
    /\ UNCHANGED <<call, ret, mb, author, threads, cur>>

NextThread == GroupMessage \/ SortThreads \/ YieldThread \/ ThreadsExhausted \/ MainMessage

SpecThread == InitThread /\ [][NextThread]_vars

(***************************************************************************)
(* Single-message filter runs.  ret holds what mailbox_text has yielded,   *)
(* each text with the mailbox index of its message.                        *)
(***************************************************************************)
FilterAddresses == {<<>>, Alice, Bob}

FilterHeaders ==
    {[h \in {} |-> <<>>]}
      \cup {[h \in {"From"} |-> f] : f \in FilterAddresses}
      \cup {[h \in {"To"} |-> t] : t \in FilterAddresses}
      \cup {[h \in {"From", "To"} |-> IF h = "From" THEN f ELSE t] :
              f \in FilterAddresses, t \in FilterAddresses \cup {Bob \o <<44, 32>> \o Alice}}  \* ", "

FilterMessages ==
    {[headers |-> h, parts |-> <<PlainPart(<<111, 107>>)>>] : h \in FilterHeaders}  \* "ok"
      \cup {[headers |-> [From |-> Alice, To |-> Bob], parts |-> <<HtmlPart>>],
            [headers |-> [From |-> Alice, To |-> Bob],
             parts |-> <<CharsetPart(UnknownName, <<111, 107>>)>>]}  \* "ok"

FilterAuthors == {<<>>, Alice, <<108, 105>>}  \* "li"

InitFilter ==
    /\ mb \in SeqsUpTo(FilterMessages, MaxFilterMsgs)
    /\ author \in FilterAuthors
    /\ threads = <<>>
    /\ pc = "filter"
    /\ pos = 0
    /\ cur = 0
    /\ stdout = <<>>
    /\ stderr = <<>>
    /\ text_utf = <<>>
    /\ exc = ""
    /\ call = [fn |-> "mailbox_text"]
    /\ ret = <<>>

\* mailbox_text, lines 203-215: one message of the mailbox.  The text of a message
\* is computed only once the four tests have let it through.
FilterMessage ==
    /\ pc = "filter"
    /\ pos < Len(mb)
    /\ LET message == mb[pos + 1]
           walked == message_to_text(message)
           text == munge_message(walked.text)
       IN  IF relevant(message, author) /\ walked.raised # ""
           THEN /\ exc' = walked.raised
                /\ pc' = "error"
                /\ UNCHANGED <<ret, pos>>
           ELSE /\ ret' = IF relevant(message, author) /\ text # <<>>
                          THEN Append(ret, [message |-> pos + 1, text |-> text])
                          ELSE ret
                /\ pos' = pos + 1
                /\ UNCHANGED <<pc, exc>>
    /\ UNCHANGED <<call, mb, author, threads, cur, stdout, stderr, text_utf>>

FilterExhausted ==
    /\ pc = "filter"
    /\ pos = Len(mb)
    /\ pc' = "done"
    /\ UNCHANGED <<call, ret, mb, author, threads, pos, cur, stdout, stderr, text_utf, exc>>

NextFilter == FilterMessage \/ FilterExhausted

SpecFilter == InitFilter /\ [][NextFilter]_vars

----
\* the author occurs in the message's From or To
Involves(message, a) ==
    Contains(Get(message, "From", <<>>), a) \/ Contains(Get(message, "To", <<>>), a)

\* C1: the threaded export is filtered by the author: every thread it yields holds
\* at least one message involving the author, and nothing of a thread that does
\* not involve the author is printed.
C1_OnlyAuthorThreads ==
    (call = NoCall) =>
        /\ \A k \in 1..cur :
              \E j \in 1..Len(threads[k].msgs) : Involves(mb[threads[k].msgs[j]], author)
        /\ \A n \in 1..Len(stdout) :
              stdout[n].line = "Email thread" =>
                  \E k \in 1..Len(threads) :
                      /\ threads[k].id = stdout[n].bytes
                      /\ \E j \in 1..Len(threads[k].msgs) :
                            Involves(mb[threads[k].msgs[j]], author)

\* the bodies main has printed, in order
PrintedBodies == SelectSeq(stdout, LAMBDA item : item.line = "body")

\* C2: main writes one diagnostic line for each message whose body it printed,
\* carrying the first 20 bytes of that body, and a message whose cleaned text is
\* empty causes no diagnostic and no error.
C2_DiagnosticPerPrintedBody ==
    (call = NoCall) =>
        /\ exc = ""
        /\ stderr = [n \in 1..Len(PrintedBodies) |->
                        Take(PrintedBodies[n].bytes, DiagLen) \o <<LF>>]

\* C3: once mailbox_text_thread has grouped and sorted, every thread holds its
\* messages in non-decreasing order of the raw Date string, a message without a
\* Date header counting as "" and so standing before every message with a
\* non-empty Date.
C3_ThreadsSortedByDate ==
    (call = NoCall /\ pc \in {"yield", "message", "done", "error"}) =>
        \A k \in 1..Len(threads) :
            LET msgs == threads[k].msgs
            IN  \A i \in 1..Len(msgs) : \A j \in 1..Len(msgs) :
                    /\ i < j => StrLE(Get(mb[msgs[i]], "Date", <<>>), Get(mb[msgs[j]], "Date", <<>>))
                    /\ ("Date" \notin DOMAIN mb[msgs[i]].headers
                          /\ Get(mb[msgs[j]], "Date", <<>>) # <<>>) => i < j

\* C3 witness: a yielded thread of three messages that arrived with the later date
\* first and the undated message last, now led by the undated message
C3_Witness ==
    /\ call = NoCall /\ pc = "message"
    /\ LET msgs == threads[cur].msgs
       IN  /\ Len(msgs) = 3
           /\ "Date" \notin DOMAIN mb[msgs[1]].headers
           /\ msgs[1] > msgs[2] /\ msgs[1] > msgs[3] /\ msgs[3] < msgs[2]
           /\ Get(mb[msgs[2]], "Date", <<>>) # Get(mb[msgs[3]], "Date", <<>>)

\* the message with mailbox index k has been yielded by mailbox_text
Yielded(k) == \E n \in 1..Len(ret) : ret[n].message = k

\* C8 (as claimed): mailbox_text yields text only for relevant messages, a message
\* being relevant iff its From header exists and contains author and its To header
\* exists and does not contain author.
C8_RelevantIfHeadersExist ==
    (call.fn = "mailbox_text") =>
        \A k \in 1..pos :
            Yielded(k) <=>
                /\ "From" \in DOMAIN mb[k].headers
                /\ Contains(mb[k].headers["From"], author)
                /\ "To" \in DOMAIN mb[k].headers
                /\ ~Contains(mb[k].headers["To"], author)
                /\ message_to_text(mb[k]).raised = ""
                /\ munge_message(message_to_text(mb[k]).text) # <<>>

\* C8 (amended): mailbox_text yields text only for relevant messages, a message
\* being relevant iff its From header is present, non-empty and contains author
\* and its To header is present, non-empty and does not contain author.
C8_RelevantIfHeadersNonEmpty ==
    (call.fn = "mailbox_text") =>
        \A k \in 1..pos :
            Yielded(k) <=>
                /\ "From" \in DOMAIN mb[k].headers
                /\ mb[k].headers["From"] # <<>>
                /\ Contains(mb[k].headers["From"], author)
                /\ "To" \in DOMAIN mb[k].headers
                /\ mb[k].headers["To"] # <<>>
                /\ ~Contains(mb[k].headers["To"], author)
                /\ message_to_text(mb[k]).raised = ""
                /\ munge_message(message_to_text(mb[k]).text) # <<>>

\* C8 witness: the filter has passed over a message from the author whose To header
\* is present but empty, and over one with the author in both From and To, and has
\* yielded nothing for either
C8_Witness ==
    /\ call.fn = "mailbox_text" /\ pc = "done" /\ author # <<>>
    /\ \E k \in 1..pos :
          /\ Contains(Get(mb[k], "From", <<>>), author)
          /\ "To" \in DOMAIN mb[k].headers /\ mb[k].headers["To"] = <<>>
          /\ ~Yielded(k)
    /\ \E k \in 1..pos :
          /\ Contains(Get(mb[k], "From", <<>>), author)
          /\ Contains(Get(mb[k], "To", <<>>), author)
          /\ ~Yielded(k)

\* C4: get_thread_identifier returns the trimmed In-Reply-To whenever that header
\* is present and non-empty after trimming, and in every other case (absent, empty
\* or whitespace-only) clean_subject of the Subject, an absent Subject read as "".
C4_IdentifierAsClaimed ==
    (call.fn = "get_thread_identifier" /\ ret # <<>>) =>
        LET m == call.message
            trimmed == Strip(Get(m, "In-Reply-To", <<>>))
        IN  ret[1] = IF trimmed # <<>> THEN trimmed
                     ELSE clean_subject(Get(m, "Subject", <<>>))

\* C5: clean_subject removes exactly one leading "Re:"/"Fwd:" prefix (any case, with
\* the whitespace after it) and trims, also when whitespace precedes the prefix.
C5_CleanSubjectAsClaimed ==
    (call.fn = "clean_subject" /\ ret # <<>>) =>
        ret[1] = Strip(SubPrefix(LStrip(call.subject)))

\* the physical lines of a text as unflow_text reads them: unquoted, then unstuffed
Unstuffed(line) == unstuff_line(unquoted_line(line).line)

\* no physical line is a trailing-space soft break
NoSoftBreaks(text) ==
    \A k \in 1..Len(splitlines(text)) :
        ~unflow_line(Unstuffed(splitlines(text)[k]), PyBool(FALSE)).soft_break

\* C6 (as claimed): with delsp=false, unflow_text is idempotent on every text that
\* contains no trailing-space soft break.
C6_IdempotentAsClaimed ==
    (call.fn = "unflow_text" /\ ~IsTrue(call.delsp) /\ Len(ret) = 2
        /\ NoSoftBreaks(call.text))
      => ret[2] = ret[1]

\* no line of an un-flowed text is still space-stuffed: none has a space right
\* after its leading run of ">"
NoStuffedLine(text) ==
    \A k \in 1..Len(splitlines(text)) :
        ~StartsWith(unquoted_line(splitlines(text)[k]).line, <<SP>>)

\* C6 (amended): with delsp=false, unflow_text is idempotent on every text that
\* contains no trailing-space soft break and whose un-flowed result has no line that
\* is still space-stuffed.
C6_IdempotentUnstuffed ==
    (call.fn = "unflow_text" /\ ~IsTrue(call.delsp) /\ Len(ret) = 2
        /\ NoSoftBreaks(call.text) /\ NoStuffedLine(ret[1]))
      => ret[2] = ret[1]

\* C6 witness: a quoted, space-stuffed text without soft breaks has been un-flowed
\* twice, and its result carries no stuffed line
C6_Witness ==
    /\ call.fn = "unflow_text" /\ ~IsTrue(call.delsp) /\ Len(ret) = 2
    /\ NoSoftBreaks(call.text) /\ NoStuffedLine(ret[1])
    /\ Len(splitlines(call.text)) = 2
    /\ \E k \in 1..2 : LET q == unquoted_line(splitlines(call.text)[k])
                       IN  q.quote_depth > 0 /\ StartsWith(q.line, <<SP>>)
    /\ ret[1] # call.text

\* unflow_text as C9 describes it: a logical line is prefixed with the quote depth
\* of the first physical line that contributed to it
RECURSIVE FirstDepthLoop(_, _, _, _, _)
FirstDepthLoop(lines, delsp, full_line, first_depth, full_text) ==
    IF lines = <<>> THEN full_text
    ELSE LET q == unquoted_line(Head(lines))
             f == unflow_line(unstuff_line(q.line), delsp)
             joined == full_line \o f.line
             depth == IF first_depth = <<>> THEN q.quote_depth ELSE first_depth[1]
         IN  IF ~f.soft_break
             THEN FirstDepthLoop(Tail(lines), delsp, <<>>, <<>>,
                                 full_text \o Repeat(<<GT>>, depth) \o joined \o <<LF>>)
             ELSE FirstDepthLoop(Tail(lines), delsp, joined, <<depth>>, full_text)

\* C9: every finalized logical line is prefixed with as many ">" as the quote depth
\* of the first physical line that contributed to it.
C9_FirstLineDepth ==
    (call.fn = "unflow_text" /\ Len(ret) >= 1)
      => ret[1] = FirstDepthLoop(splitlines(call.text), call.delsp, <<>>, <<>>, <<>>)

\* C10: a text/plain part with a charset and format=flowed is un-flowed with delsp
\* from its delsp parameter: soft-break spaces are deleted when delsp=yes and kept
\* when delsp is absent or declared as no.
C10_DelspAsDeclared ==
    (call.fn = "part_to_text" /\ ret # <<>>
        /\ call.part.content_type = "text/plain"
        /\ IsTrue(get_content_charset(call.part))
        /\ get_param(call.part, "format", PyNone) = PyStr(FlowedLit))
      => ret[1] = <<unflow_text(Decode(call.part.payload, get_content_charset(call.part).s).text,
                                PyBool(get_param(call.part, "delsp", PyNone) = PyStr(<<121, 101, 115>>)))>>

\* index s opens a line of the text (it follows a \n or is the first index) that
\* starts with "On"
OnLineAt(text, s) ==
    /\ s = 1 \/ text[s - 1] = LF
    /\ StartsWithAt(text, s, OnLit)

\* the text before the line that index s opens, without the \n that ends it
Before(text, s) == IF s = 1 THEN <<>> ELSE SubSeq(text, 1, s - 2)

\* C7 reads the marker as a line that starts with "On" and is followed, anywhere
\* later in the text, by "wrote:"
LooseMarkers(text) ==
    {s \in 1..Len(text) :
        OnLineAt(text, s) /\ \E w \in (s + Len(OnLit))..Len(text) : StartsWithAt(text, w, WroteLit)}

\* C7 (as claimed): munge_message deletes everything from the first line that starts
\* with "On" and is followed eventually by "wrote:" through the end of the text; a
\* text that matches no deletion pattern is returned unchanged.
C7_TruncatesAtLooseMarker ==
    (call.fn = "munge_message" /\ ret # <<>>) =>
        /\ LooseMarkers(call.text) # {} =>
              LET s == CHOOSE x \in LooseMarkers(call.text) :
                           \A y \in LooseMarkers(call.text) : x <= y
              IN  ret[1] = munge_message(Before(call.text, s))
        /\ (\A k \in 1..PatternCount : \A i \in 1..Len(call.text) :
                MatchEnd(k, call.text, i) = 0) => ret[1] = call.text

\* the marker the code deletes from: the "On" line has "wrote:" directly followed by
\* a line break, on the same line or on the next one
ReplyMarkers(text) ==
    {s \in 1..Len(text) :
        /\ OnLineAt(text, s)
        /\ \E w \in (s + Len(OnLit))..Len(text) :
              /\ StartsWithAt(text, w, WroteLit \o <<LF>>)
              /\ Cardinality({j \in (s + Len(OnLit))..(w - 1) : text[j] = LF}) <= 1}

\* C7 (amended): munge_message deletes everything from the first line that starts
\* with "On" and has "wrote:" directly followed by a line break on that line or the
\* next one, together with the line break before it, through the end of the text;
\* a text that matches no deletion pattern is returned unchanged.
C7_TruncatesAtReplyMarker ==
    (call.fn = "munge_message" /\ ret # <<>>) =>
        /\ ReplyMarkers(call.text) # {} =>
              LET s == CHOOSE x \in ReplyMarkers(call.text) :
                           \A y \in ReplyMarkers(call.text) : x <= y
              IN  /\ ret[1] = munge_message(Before(call.text, s))
                  /\ Len(ret[1]) <= Len(Before(call.text, s))
        /\ (\A k \in 1..PatternCount : \A i \in 1..Len(call.text) :
                MatchEnd(k, call.text, i) = 0) => ret[1] = call.text

\* C7 witness: a text with content before a reply marker whose "wrote:" is on the
\* line after the "On", and content after it, has been munged to the content before
C7_Witness ==
    /\ call.fn = "munge_message" /\ ret # <<>>
    /\ \E s \in ReplyMarkers(call.text) :
          /\ s > 1
          /\ ~\E w \in s..Len(call.text) :
                  /\ StartsWithAt(call.text, w, WroteLit)
                  /\ \A j \in s..w : call.text[j] # LF
    /\ ~EndsWith(call.text, WroteLit \o <<LF>>)
    /\ ret[1] # <<>>
    /\ ret[1] # call.text

====
